---- MODULE Spec2Model ----
(***************************************************************************)
(* xmodem-crc bootloader for avr0/1 (src/bootloader.c).                    *)
(*                                                                         *)
(* The device is one thread of control: reset, entryCheck, then either a   *)
(* jump to the application or init, programApp (Xbroadcast, the xmodem     *)
(* receive loop, page loads, nvmWrite, verify), eeAppOK, the four dumps,   *)
(* the wait for the switch and the soft reset.  pc is the position of that *)
(* thread at the points where it blocks on the uart or on the nvm          *)
(* controller.  The host, the switch, the rx line, the flash array and the *)
(* power supply are the environment: their choices are the \E of the       *)
(* actions.                                                                *)
(***************************************************************************)
EXTENDS Integers, Sequences, FiniteSets, TLC

(***************************************************************************)
(* Bounds of the model.                                                    *)
(***************************************************************************)
MaxFrames == 2      \* SOH frames the host sends in one session
MaxPings == 1       \* pings of one session before the host answers
MaxNoise == 1       \* stray bytes the host sends in one session
MaxFaults == 1      \* page writes of one run that the flash array gets wrong
MaxResets == 2      \* resets (power loss or soft reset) of one run

(***************************************************************************)
(* Program constants.                                                      *)
(***************************************************************************)
X_NACK == 21
X_ACK == 6
X_SOH == 1
X_EOT == 4
X_PING == 67
X_DATA_SIZE == 128
BL_SIZE == 2048
MAPPED_PROGMEM_START == 32768
Erased == 255

\* MAPPED_PROGMEM_PAGE_SIZE of the devices the code is written for
\* ("64 is the only other lower value"); the build picks one.
PageSizes == {64, 128}

(***************************************************************************)
(* Bit operations on naturals.                                             *)
(***************************************************************************)
BitXor[a \in Nat, b \in Nat] ==
    IF a = 0 THEN b
    ELSE IF b = 0 THEN a
    ELSE (((a % 2) + (b % 2)) % 2) + 2 * BitXor[a \div 2, b \div 2]

BitOr[a \in Nat, b \in Nat] ==
    IF a = 0 THEN b
    ELSE IF b = 0 THEN a
    ELSE (IF (a % 2) = 1 \/ (b % 2) = 1 THEN 1 ELSE 0) + 2 * BitOr[a \div 2, b \div 2]

\* appMemStart = (volatile uint8_t*)(MAPPED_PROGMEM_START|BL_SIZE)
appMemStart == BitOr[MAPPED_PROGMEM_START, BL_SIZE]

\* The part of mapped program memory a session of at most MaxFrames blocks
\* can reach.
AppAddrs == appMemStart .. (appMemStart + MaxFrames * X_DATA_SIZE - 1)

DataIdx == 0 .. (X_DATA_SIZE - 1)

(***************************************************************************)
(* crc16: one byte into the running 16 bit crc.                            *)
(***************************************************************************)
\* The for loop of crc16 with n passes left: b15, crc <<= 1, crc ^= 0x1021.
crc16Bits[acc \in 0 .. 65535, n \in 0 .. 8] ==
    IF n = 0 THEN acc
    ELSE LET b15 == acc >= 32768
             sh == (acc * 2) % 65536
         IN crc16Bits[IF b15 THEN BitXor[sh, 4129] ELSE sh, n - 1]

\* A crc16() whose loop makes seven passes (i < 7).
crc16SevenPasses(acc, v) == crc16Bits[BitXor[acc, (v * 256) % 65536], 7]

\* A crc16() that folds the byte into the low half (crc ^ v).
crc16Unshifted(acc, v) == crc16Bits[BitXor[acc, v], 8]

\* crc = crc ^ (v << 8), then the eight passes.
crc16(acc, v) == crc16Bits[BitXor[acc, (v * 256) % 65536], 8]

\* uint16_t crc = 0, then the loop of xmodem() over the X_DATA_SIZE bytes,
\* crc = crc16( crc, v ).  run[lo, hi, acc] is the loop over the bytes
\* lo .. hi - 1 entered with crc = acc; the range is halved to keep the
\* evaluation shallow.
crcLoop(data) ==
    LET run[lo \in 0 .. X_DATA_SIZE, hi \in 0 .. X_DATA_SIZE, acc \in 0 .. 65535] ==
            IF hi - lo = 1
            THEN crc16(acc, data[lo])
            ELSE run[(lo + hi) \div 2, hi, run[lo, (lo + hi) \div 2, acc]]
    IN run[0, X_DATA_SIZE, 0]

(***************************************************************************)
(* The payloads the host picks from.  The first holds the bytes SOH and    *)
(* EOT, the second starts with an erased-looking byte.                     *)
(***************************************************************************)
PayloadA == [k \in DataIdx |-> ((k * 7) + 1) % 256]
PayloadB == [k \in DataIdx |-> IF k = 0 THEN 255 ELSE (200 - k) % 256]
Payloads == <<PayloadA, PayloadB>>

\* crc of each payload as xmodem() accumulates it (seed 0).
PayloadCrc == <<crcLoop(PayloadA), crcLoop(PayloadB)>>

(***************************************************************************)
(* The host's side of the wire.  A frame is SOH, block number, complement, *)
(* X_DATA_SIZE payload bytes and two trailer bytes.  The host computes the *)
(* checksum the way the protocol defines it: the remainder of the message  *)
(* bits, most significant first, divided by x^16 + x^12 + x^5 + 1.         *)
(***************************************************************************)
RefCrcBits[reg \in 0 .. 65535, byte \in 0 .. 255, n \in 0 .. 8] ==
    IF n = 0 THEN reg
    ELSE LET bit == (byte \div 128) % 2
             top == (reg \div 32768) % 2
             sh  == (reg * 2) % 65536
         IN RefCrcBits[IF top # bit THEN BitXor[sh, 4129] ELSE sh,
                       (byte * 2) % 256, n - 1]

RefCrcSeq(data) ==
    LET run[lo \in 0 .. X_DATA_SIZE, hi \in 0 .. X_DATA_SIZE, reg \in 0 .. 65535] ==
            IF hi - lo = 1
            THEN RefCrcBits[reg, data[lo], 8]
            ELSE run[(lo + hi) \div 2, hi, run[lo, (lo + hi) \div 2, reg]]
    IN run[0, X_DATA_SIZE, 0]

RefCrc == <<RefCrcSeq(PayloadA), RefCrcSeq(PayloadB)>>

\* Block number and complement bytes the host may send: two good pairs and
\* a bad one, whose sum 256 is 0 in eight bits.
BlockPairs == {<<1, 254>>, <<2, 253>>, <<128, 128>>}

\* Trailers the host may send after payload n: the checksum high byte first,
\* the same two bytes low byte first, and a checksum off by one.
Trailers(n) ==
    LET hi == RefCrc[n] \div 256
        lo == RefCrc[n] % 256
    IN {<<hi, lo>>, <<lo, hi>>, <<hi, (lo + 1) % 256>>}

\* A frame as the protocol defines a good one: the complement pair sums to
\* 255 and the trailer is the checksum, high byte first.
GoodPair(pair) == pair[1] + pair[2] = 255

GoodTrailer(n, t) == t = <<RefCrc[n] \div 256, RefCrc[n] % 256>>

\* Stray bytes that are neither SOH nor EOT.
NoiseBytes == {67}

(***************************************************************************)
(* State.                                                                  *)
(***************************************************************************)
VARIABLES
    pc,          \* position of main()
    pageSize,    \* MAPPED_PROGMEM_PAGE_SIZE of the build
    eeLast,      \* *eeLastBytePtr, the last byte of the eeprom
    flash,       \* mapped program memory from appMemStart on
    pageBuf,     \* the nvm controller's page buffer: address -> loaded byte
    nvmBusy,     \* NVMCTRL.STATUS bit 1 (eeprom busy)
    flashPtr,    \* programApp's flashPtr
    xmodemData,  \* the payload buffer
    i,           \* programApp's i while a block is loaded, else 0
    pbc,         \* programApp's pbc while a block is loaded, else 0
    sw,          \* the switch pin: its pull-up and its input level
    led,         \* the led pin: direction and output bit
    uartOn,      \* init() has run since the last reset
    rx,          \* Xbroadcast's rx: what isRxActive() returned last
    crc,         \* xmodem's crc while it folds a payload, else 0
    fed,         \* the value crc started from and the bytes folded into it
    tx,          \* bytes written by uwrite before the dumps, oldest first
    dumped,      \* regions dumped since the last reset, oldest first
    rxLog,       \* frames the host sent since the last reset: the payload, whether
                 \* the pair sums to 255, whether the trailer is the checksum
    noise,       \* stray bytes the host sent since the last reset
    eotAcked,    \* the EOT was read and acked since the last reset
    wrote,       \* a page of flash was written since the last reset
    faulted,     \* a page write went wrong since the last reset
    flash0,      \* flash as the last reset found it
    cut,         \* from a reset until the bootloader runs again: what the
                 \* reset interrupted, "none", a session that had "started"
                 \* or one that had "written" flash
    faults,      \* page writes that went wrong in this run
    resets       \* resets of this run

volatile == <<pageBuf, nvmBusy, flashPtr, xmodemData, i, pbc, sw, led, uartOn,
              rx, crc, fed>>
ghost == <<tx, dumped, rxLog, noise, eotAcked, wrote, faulted, flash0, cut,
           faults, resets>>
vars == <<pc, pageSize, eeLast, flash, volatile, ghost>>

Zeros == [k \in DataIdx |-> 0]
EmptyBuf == [a \in {} |-> 0]
\* uint16_t crc = 0; with nothing folded yet.
NoneFed == [seed |-> 0, bytes |-> <<>>]

\* The switch is wired active low: Sw = { &PORTB, 7, 1<<7, 0 }.
SwOnVal == 0
\* The led is wired active low: Led = { &PORTA, 3, 1<<3, 0 }.
LedOnVal == 0

\* What a reset leaves in the registers and what the startup code leaves in
\* ram; eeprom and flash keep their contents.
AfterReset ==
    /\ pc' = "entry"
    /\ pageBuf' = EmptyBuf
    /\ nvmBusy' = FALSE
    /\ flashPtr' = appMemStart
    /\ xmodemData' = Zeros
    /\ i' = 0
    /\ pbc' = 0
    /\ sw' = [pullup |-> FALSE, in |-> 1]
    /\ led' = [dir |-> FALSE, out |-> 0]
    /\ uartOn' = FALSE
    /\ rx' = FALSE
    /\ crc' = 0
    /\ fed' = NoneFed
    /\ tx' = <<>>
    /\ dumped' = <<>>
    /\ rxLog' = <<>>
    /\ noise' = 0
    /\ eotAcked' = FALSE
    /\ wrote' = FALSE
    /\ faulted' = FALSE
    /\ flash0' = flash

\* A device as it leaves the factory, at power-on: eeprom and flash erased,
\* registers at their reset values.
Fresh ==
    /\ pageSize \in PageSizes
    /\ eeLast = Erased
    /\ flash = [a \in AppAddrs |-> Erased]
    /\ pageBuf = EmptyBuf
    /\ nvmBusy = FALSE
    /\ flashPtr = appMemStart
    /\ xmodemData = Zeros
    /\ i = 0
    /\ pbc = 0
    /\ sw = [pullup |-> FALSE, in |-> 1]
    /\ led = [dir |-> FALSE, out |-> 0]
    /\ uartOn = FALSE
    /\ rx = FALSE
    /\ tx = <<>>
    /\ dumped = <<>>
    /\ rxLog = <<>>
    /\ noise = 0
    /\ eotAcked = FALSE
    /\ wrote = FALSE
    /\ faulted = FALSE
    /\ flash0 = flash
    /\ cut = "none"
    /\ faults = 0
    /\ resets = 0

\* Power-on of a fresh device: main() is entered.
Init ==
    /\ pc = "entry"
    /\ crc = 0
    /\ fed = NoneFed
    /\ Fresh

\* A main() that marks the application before it has received it.
mainMarkFirst ==
    <<"entry", "init", "eeAppOK", "programApp", "dumpSigrow", "dumpFuses",
      "dumpFlash", "dumpEeprom", "swWait", "softReset">>

\* A main() that dumps the signature row before it receives.
mainDumpFirst ==
    <<"entry", "init", "dumpSigrow", "programApp", "eeAppOK", "dumpFuses",
      "dumpFlash", "dumpEeprom", "swWait", "softReset">>

\* A main() that dumps the fuses before the signature row.
mainFusesFirst ==
    <<"entry", "init", "programApp", "eeAppOK", "dumpFuses", "dumpSigrow",
      "dumpFlash", "dumpEeprom", "swWait", "softReset">>

(***************************************************************************)
(* main(): the order of its calls.  programApp is entered at Xbroadcast.   *)
(***************************************************************************)
main ==
    <<"entry", "init", "programApp", "eeAppOK", "dumpSigrow", "dumpFuses",
      "dumpFlash", "dumpEeprom", "swWait", "softReset">>

Enter(stage) == IF stage = "programApp" THEN "broadcast" ELSE stage

After(stage) ==
    LET k == CHOOSE n \in DOMAIN main : main[n] = stage
    IN Enter(main[k + 1])

(***************************************************************************)
(* Pins.                                                                   *)
(***************************************************************************)
\* swIsOn(): pull-up on, then the input bit against onVal.
swIsOn(level) == level = SwOnVal

ledTog(l) == [dir |-> TRUE, out |-> 1 - l.out]

ledOn(l) == [dir |-> TRUE, out |-> LedOnVal]

\* An entryCheck() that does not look at the first application byte.
entryCheckNoFirst(flag, level, first) ==
    flag = 255 \/ swIsOn(level)

(***************************************************************************)
(* entryCheck(): true to stay in the bootloader.  The switch is sampled    *)
(* only when the flag byte is not 0xFF (|| evaluates left to right).       *)
(***************************************************************************)
entryCheck(flag, level, first) ==
    flag = 255 \/ swIsOn(level) \/ first = 255

\* main(): if( entryCheck() == false ) goto *appStartAddr;
EntryCheck ==
    /\ pc = "entry"
    /\ \E level \in {0, 1} :
        /\ sw' = [pullup |-> (eeLast # 255), in |-> level]
        /\ IF entryCheck(eeLast, level, flash[appMemStart])
           THEN pc' = After("entry") /\ cut' = "none"
           ELSE pc' = "app" /\ cut' = cut
    /\ UNCHANGED <<pageSize, eeLast, flash, pageBuf, nvmBusy, flashPtr,
                   xmodemData, i, pbc, led, uartOn, rx, crc, fed, tx, dumped, rxLog, noise,
                   eotAcked, wrote, faulted, flash0, faults, resets>>

\* init(): clock prescaler, baud rate, RXEN and TXEN, tx pin, rx edge sense.
InitHw ==
    /\ pc = "init"
    /\ uartOn' = TRUE
    /\ pc' = After("init")
    /\ UNCHANGED <<pageSize, eeLast, flash, pageBuf, nvmBusy, flashPtr,
                   xmodemData, i, pbc, sw, led, rx, crc, fed, ghost>>

(***************************************************************************)
(* Xbroadcast(): toggle the led, send the ping, poll the rx edge flag.     *)
(***************************************************************************)
Pings == Len(SelectSeq(tx, LAMBDA b : b = X_PING))

Ping ==
    /\ pc = "broadcast"
    /\ Pings < MaxPings
    /\ led' = ledTog(led)
    /\ tx' = Append(tx, X_PING)
    /\ pc' = "poll"
    /\ UNCHANGED <<pageSize, eeLast, flash, pageBuf, nvmBusy, flashPtr,
                   xmodemData, i, pbc, sw, uartOn, rx, crc, fed, dumped, rxLog, noise,
                   eotAcked, wrote, faulted, flash0, cut, faults, resets>>

\* An Xbroadcast() that gives up after one wait.
afterPollTimeout(seen) == "xmodem"

\* if( rx ) break; else the outer while(1) goes round again.
afterPoll(seen) == IF seen THEN "xmodem" ELSE "broadcast"

\* The inner poll ends with rx set (the host started to send) or with the
\* count used up; programApp then turns the led on and sets flashPtr.
PollRx ==
    /\ pc = "poll"
    /\ \E seen \in BOOLEAN :
        /\ rx' = seen
        /\ pc' = afterPoll(seen)
        /\ IF afterPoll(seen) = "xmodem"
           THEN /\ led' = ledOn(led)
                /\ flashPtr' = appMemStart
           ELSE UNCHANGED <<led, flashPtr>>
    /\ UNCHANGED <<pageSize, eeLast, flash, pageBuf, nvmBusy, xmodemData, i,
                   pbc, sw, uartOn, crc, fed, ghost>>

(***************************************************************************)
(* xmodem(): one pass of its loop per byte read where a frame may start.   *)
(***************************************************************************)
\* c is neither EOT nor SOH: continue.
RxNoise ==
    /\ pc = "xmodem"
    /\ noise < MaxNoise
    /\ \E b \in NoiseBytes :
        /\ b # X_EOT
        /\ b # X_SOH
        /\ noise' = noise + 1
    /\ UNCHANGED <<pc, pageSize, eeLast, flash, volatile, tx, dumped, rxLog,
                   eotAcked, wrote, faulted, flash0, cut, faults, resets>>

\* c is EOT: xmodem returns false, programApp acks the EOT and returns.
RxEOT ==
    /\ pc = "xmodem"
    /\ tx' = Append(tx, X_ACK)
    /\ eotAcked' = TRUE
    /\ pc' = After("programApp")
    /\ UNCHANGED <<pageSize, eeLast, flash, volatile, dumped, rxLog, noise,
                   wrote, faulted, flash0, cut, faults, resets>>

\* A sum that takes only block number 1 as a good pair.
blockSumFirstOnly(blk, inv) == IF blk = 1 THEN (blk + inv) % 256 ELSE 0

\* uint8_t blockSum = uread() + uread();
blockSum(blk, inv) == (blk + inv) % 256

\* A frame test that does not look at the block number pair.
frameOkAnyPair(crcv, hi, lo, sum) ==
    crcv = ((hi * 256) + lo) % 65536

\* if( crc == ((uread()<<8u) + uread()) && blockSum == 255 ) break;
\* the trailer bytes are read in the order written, high byte first.
frameOk(crcv, hi, lo, sum) ==
    crcv = ((hi * 256) + lo) % 65536 /\ sum = 255

\* c is SOH: read block number, complement, payload and trailer; break on a
\* good frame (programApp then starts to load the page buffer), else NACK.
\* The log keeps the payload, whether the pair and the trailer were good and
\* where flashPtr stood; it keeps the block number read when numbered is
\* set, and 0 in its place otherwise.
Frame(numbered) ==
    /\ pc = "xmodem"
    /\ Len(rxLog) < MaxFrames
    /\ \E n \in DOMAIN Payloads, pair \in BlockPairs :
        \E t \in Trailers(n) :
            /\ xmodemData' = Payloads[n]
            /\ rxLog' = Append(rxLog, [p |-> n,
                                       blk |-> IF numbered THEN pair[1] ELSE 0,
                                       pair |-> GoodPair(pair),
                                       crc |-> GoodTrailer(n, t),
                                       at |-> flashPtr])
            /\ IF frameOk(PayloadCrc[n], t[1], t[2], blockSum(pair[1], pair[2]))
               THEN /\ pc' = "load"
                    /\ tx' = tx
               ELSE /\ pc' = "xmodem"
                    /\ tx' = Append(tx, X_NACK)
    /\ UNCHANGED <<pageSize, eeLast, flash, pageBuf, nvmBusy, flashPtr, i, pbc,
                   sw, led, uartOn, rx, crc, fed, dumped, noise, eotAcked, wrote, faulted,
                   flash0, cut, faults, resets>>

RxFrame == Frame(FALSE)

\* The same step with the block number kept in the log.
RxFrameNumbered == Frame(TRUE)

(***************************************************************************)
(* programApp(): the body of its while( xmodem() ) loop.                   *)
(***************************************************************************)
\* flashPtr[i] = xmodemData[i] for i = from .. to - 1: stores to mapped flash
\* land in the page buffer.
load(buf, data, ptr, from, to) ==
    LET new == {(ptr + k) % 65536 : k \in from .. (to - 1)}
    IN [a \in (DOMAIN buf) \cup new |->
           IF a \in new THEN data[(a - ptr) % 65536] ELSE buf[a]]

\* The least member of a non-empty set of naturals.
Least(S) == CHOOSE k \in S : \A j \in S : k <= j

\* A load loop that does not clear pbc after nvmWrite.
loadLoopNoClear(i0, pbc0, size) ==
    LET stops == {k \in i0 .. (X_DATA_SIZE - 1) : ~(pbc0 + (k - i0) + 1 < size)}
    IN IF stops = {}
       THEN [i |-> IF i0 < X_DATA_SIZE THEN X_DATA_SIZE ELSE i0,
             pbc |-> IF i0 < X_DATA_SIZE THEN pbc0 + (X_DATA_SIZE - i0) ELSE pbc0,
             write |-> FALSE]
       ELSE [i |-> Least(stops) + 1, pbc |-> size, write |-> TRUE]

\* A load loop that commits one byte late (++pbc <= size).
loadLoopLate(i0, pbc0, size) ==
    LET stops == {k \in i0 .. (X_DATA_SIZE - 1) : ~(pbc0 + (k - i0) + 1 <= size)}
    IN IF stops = {}
       THEN [i |-> IF i0 < X_DATA_SIZE THEN X_DATA_SIZE ELSE i0,
             pbc |-> IF i0 < X_DATA_SIZE THEN pbc0 + (X_DATA_SIZE - i0) ELSE pbc0,
             write |-> FALSE]
       ELSE [i |-> Least(stops) + 1, pbc |-> 0, write |-> TRUE]

\* The inner while( i < X_DATA_SIZE ) loop, run from i = i0, pbc = pbc0 until
\* it calls nvmWrite or ends: the counters it leaves and whether it stopped
\* at nvmWrite.  It stops at the first pass k where ++pbc < size is false.
loadLoop(i0, pbc0, size) ==
    LET stops == {k \in i0 .. (X_DATA_SIZE - 1) : ~(pbc0 + (k - i0) + 1 < size)}
    IN IF stops = {}
       THEN [i |-> IF i0 < X_DATA_SIZE THEN X_DATA_SIZE ELSE i0,
             pbc |-> IF i0 < X_DATA_SIZE THEN pbc0 + (X_DATA_SIZE - i0) ELSE pbc0,
             write |-> FALSE]
       ELSE [i |-> Least(stops) + 1, pbc |-> 0, write |-> TRUE]

\* An erase that takes the neighbouring page along.
nvmWriteWide(mem, buf, last, size) ==
    [a \in DOMAIN mem |->
        IF a \div size = last \div size
        THEN IF a \in DOMAIN buf THEN buf[a] ELSE Erased
        ELSE IF a \div (2 * size) = last \div (2 * size) THEN Erased
        ELSE mem[a]]

\* nvmWrite() with CTRLA = 3 (erase and write page): the page of the last
\* address loaded becomes the page buffer, 0xFF where nothing was loaded.
nvmWrite(mem, buf, last, size) ==
    [a \in DOMAIN mem |->
        IF a \div size = last \div size
        THEN IF a \in DOMAIN buf THEN buf[a] ELSE Erased
        ELSE mem[a]]

\* A cell of the flash array that fails to take its value.
Corrupt(v) == IF v = Erased THEN 0 ELSE Erased

\* Where in a block the flash array may fail: its last byte.
FaultOffsets == {X_DATA_SIZE - 1}

LoadPage ==
    /\ pc = "load"
    /\ \E r \in {loadLoop(i, pbc, pageSize)} :
       \E buf \in {load(pageBuf, xmodemData, flashPtr, i, r.i)} :
          /\ i' = r.i
          /\ pbc' = r.pbc
          /\ IF r.write
             THEN \E last \in {(flashPtr + r.i - 1) % 65536} :
                  \E good \in {nvmWrite(flash, buf, last, pageSize)} :
                      /\ pageBuf' = EmptyBuf
                      /\ wrote' = TRUE
                      /\ \/ /\ flash' = good
                            /\ UNCHANGED <<faulted, faults>>
                         \/ /\ faults < MaxFaults
                            /\ \E off \in FaultOffsets :
                               \E a \in {(flashPtr + off) % 65536} :
                                  /\ a \div pageSize = last \div pageSize
                                  /\ flash' = [good EXCEPT ![a] = Corrupt(good[a])]
                                  /\ faulted' = TRUE
                                  /\ faults' = faults + 1
                      /\ pc' = IF r.i < X_DATA_SIZE THEN "load" ELSE "verify"
             ELSE /\ pageBuf' = buf
                  /\ pc' = "verify"
                  /\ UNCHANGED <<flash, wrote, faulted, faults>>
    /\ UNCHANGED <<pageSize, eeLast, nvmBusy, flashPtr, xmodemData, sw, led,
                   uartOn, rx, crc, fed, tx, dumped, rxLog, noise, eotAcked, flash0, cut,
                   resets>>

\* A verify loop that stops one byte early.
verifyLoopShort(mem, ptr, data) ==
    LET diff == {k \in 0 .. (X_DATA_SIZE - 2) : mem[(ptr + k) % 65536] # data[k]}
    IN IF diff = {} THEN X_DATA_SIZE ELSE Least(diff)

\* while( (flashPtr[i] == xmodemData[i]) && (++i < X_DATA_SIZE) ){}
\* i is left at the first index where flash and payload differ, or at
\* X_DATA_SIZE when there is none.
verifyLoop(mem, ptr, data) ==
    LET diff == {k \in DataIdx : mem[(ptr + k) % 65536] # data[k]}
    IN IF diff = {} THEN X_DATA_SIZE ELSE Least(diff)

\* if( i != X_DATA_SIZE ){ uwrite( X_NACK ); continue; } uwrite( X_ACK );
verdict(n) == IF n # X_DATA_SIZE THEN X_NACK ELSE X_ACK

\* A cursor that moves on every attempt.
nextPtrPerAttempt(ptr, n) == (ptr + X_DATA_SIZE) % 65536

\* flashPtr += X_DATA_SIZE, reached only when i == X_DATA_SIZE.
nextPtr(ptr, n) == IF n # X_DATA_SIZE THEN ptr ELSE (ptr + X_DATA_SIZE) % 65536

\* A loop that gives up on a verify mismatch.
afterVerdictAbort(n) == IF n # X_DATA_SIZE THEN "softReset" ELSE "xmodem"

\* continue after the NACK, or the end of the loop body after the ACK: both
\* go back to while( xmodem() ).
afterVerdict(n) == "xmodem"

\* i = 0; verify; NACK and continue, or ACK and flashPtr += X_DATA_SIZE.
Verify ==
    /\ pc = "verify"
    /\ \E n \in {verifyLoop(flash, flashPtr, xmodemData)} :
        /\ i' = 0
        /\ pbc' = 0
        /\ tx' = Append(tx, verdict(n))
        /\ flashPtr' = nextPtr(flashPtr, n)
        /\ pc' = afterVerdict(n)
    /\ UNCHANGED <<pageSize, eeLast, flash, pageBuf, nvmBusy, xmodemData, sw,
                   led, uartOn, rx, crc, fed, dumped, rxLog, noise, eotAcked, wrote, faulted,
                   flash0, cut, faults, resets>>

(***************************************************************************)
(* eeAppOK(): store 0 to the last eeprom byte, nvmWrite, wait while busy.  *)
(***************************************************************************)
eeAppOK ==
    /\ pc = "eeAppOK"
    /\ eeLast' = 0
    /\ pageBuf' = EmptyBuf
    /\ nvmBusy' = TRUE
    /\ pc' = "eeBusy"
    /\ UNCHANGED <<pageSize, flash, flashPtr, xmodemData, i, pbc, sw, led,
                   uartOn, rx, crc, fed, ghost>>

\* The nvm controller finishes the eeprom write.
NvmDone ==
    /\ nvmBusy
    /\ nvmBusy' = FALSE
    /\ UNCHANGED <<pc, pageSize, eeLast, flash, pageBuf, flashPtr, xmodemData,
                   i, pbc, sw, led, uartOn, rx, crc, fed, ghost>>

\* while( NVMCTRL.STATUS & 2 ){} falls through.
EeWait ==
    /\ pc = "eeBusy"
    /\ ~nvmBusy
    /\ pc' = After("eeAppOK")
    /\ UNCHANGED <<pageSize, eeLast, flash, volatile, ghost>>

(***************************************************************************)
(* The dumps, the wait for the switch, the soft reset.                     *)
(***************************************************************************)
\* A main() whose last dump never returns.
DumpStagesShort == {"dumpSigrow", "dumpFuses", "dumpFlash"}

DumpStages == {"dumpSigrow", "dumpFuses", "dumpFlash", "dumpEeprom"}

\* The region each dump function hands to dumpMem.
Region(stage) ==
    CASE stage = "dumpSigrow" -> "SIGROW"
      [] stage = "dumpFuses"  -> "FUSES"
      [] stage = "dumpFlash"  -> "MAPPED_PROGMEM"
      [] stage = "dumpEeprom" -> "MAPPED_EEPROM"

Dump ==
    /\ pc \in DumpStages
    /\ dumped' = Append(dumped, Region(pc))
    /\ pc' = After(pc)
    /\ UNCHANGED <<pageSize, eeLast, flash, volatile, tx, rxLog, noise,
                   eotAcked, wrote, faulted, flash0, cut, faults, resets>>

\* while( swIsOn() ){}: one sample of the switch.
SwWait ==
    /\ pc = "swWait"
    /\ \E level \in {0, 1} :
        /\ sw' = [pullup |-> TRUE, in |-> level]
        /\ pc' = IF swIsOn(level) THEN "swWait" ELSE After("swWait")
    /\ UNCHANGED <<pageSize, eeLast, flash, pageBuf, nvmBusy, flashPtr,
                   xmodemData, i, pbc, led, uartOn, rx, crc, fed, ghost>>

\* softReset(): the device starts again at the reset vector.
SessionPcs == {"init", "broadcast", "poll", "xmodem", "load", "verify"}

SoftReset ==
    /\ pc = "softReset"
    /\ resets < MaxResets
    /\ resets' = resets + 1
    /\ cut' = "none"
    /\ AfterReset
    /\ UNCHANGED <<pageSize, eeLast, flash, faults>>

\* Power is lost and comes back, or the reset line is pulled, at any point.
PowerReset ==
    /\ resets < MaxResets
    /\ resets' = resets + 1
    /\ cut' = IF pc \notin SessionPcs \/ eotAcked THEN "none"
              ELSE IF wrote THEN "written" ELSE "started"
    /\ AfterReset
    /\ UNCHANGED <<pageSize, eeLast, flash, faults>>

Next ==
    \/ EntryCheck
    \/ InitHw
    \/ Ping
    \/ PollRx
    \/ RxNoise
    \/ RxEOT
    \/ RxFrame
    \/ LoadPage
    \/ Verify
    \/ eeAppOK
    \/ NvmDone
    \/ EeWait
    \/ Dump
    \/ SwWait
    \/ SoftReset
    \/ PowerReset

Spec == Init /\ [][Next]_vars

(***************************************************************************)
(* The same program with the block numbers of the frames kept in the log.  *)
(***************************************************************************)
NumberedNext ==
    \/ EntryCheck
    \/ InitHw
    \/ Ping
    \/ PollRx
    \/ RxNoise
    \/ RxEOT
    \/ RxFrameNumbered
    \/ LoadPage
    \/ Verify
    \/ eeAppOK
    \/ NvmDone
    \/ EeWait
    \/ Dump
    \/ SwWait
    \/ SoftReset
    \/ PowerReset

NumberedSpec == Init /\ [][NumberedNext]_vars

(***************************************************************************)
(* The same program with what its busy waits wait for: the nvm controller  *)
(* finishes an eeprom write (NvmDone, and so EeWait), the uart's data      *)
(* register empties (Dump), and the cpu goes on (eeAppOK, and the first    *)
(* reading of the switch in the wait for its release).  Nothing is assumed *)
(* of the level of the switch or of the host.                              *)
(***************************************************************************)
\* A pass of while( swIsOn() ){} that finds the switch pressed.
SwHeld == SwWait /\ pc' = "swWait"

Fairness ==
    /\ WF_vars(eeAppOK)
    /\ WF_vars(NvmDone)
    /\ WF_vars(EeWait)
    /\ WF_vars(Dump)
    /\ WF_vars(SwHeld)

LiveSpec == Init /\ [][Next]_vars /\ Fairness

(***************************************************************************)
(* crc16() on its own: entered with any of a few values of crc, the        *)
(* payload loop of xmodem() folds up to MaxCrcLen bytes, each any byte.    *)
(***************************************************************************)
MaxCrcLen == 2

CrcSeeds == {0, 1, 4129, 7439, 32768, 65535}

CrcBytes == 0 .. 255

CrcInit ==
    /\ pc = "crc16"
    /\ crc \in CrcSeeds
    /\ fed = [seed |-> crc, bytes |-> <<>>]
    /\ pageSize = 64
    /\ Fresh

\* uint8_t v = uread(); crc = crc16( crc, v );
CrcByte ==
    /\ pc = "crc16"
    /\ Len(fed.bytes) < MaxCrcLen
    /\ \E v \in CrcBytes :
        /\ crc' = crc16(crc, v)
        /\ fed' = [fed EXCEPT !.bytes = Append(@, v)]
    /\ UNCHANGED <<pc, pageSize, eeLast, flash, pageBuf, nvmBusy, flashPtr,
                   xmodemData, i, pbc, sw, led, uartOn, rx, ghost>>

CrcNext == CrcByte

CrcSpec == CrcInit /\ [][CrcNext]_vars

(***************************************************************************)
(* A long session: the handshake, then good frames that load, commit and   *)
(* verify without a fault, one after another.  Memory is kept for the      *)
(* first blocks of the application and for the block stored to last, which *)
(* is all the code reads; the log keeps where each frame was stored.  The  *)
(* host sends the same payload each time.                                  *)
(***************************************************************************)
MaxBlocks == 241

\* Mapped program memory ends at the top of the 16 bit data space.
MAPPED_PROGMEM_END == 65535

MappedProgmem == MAPPED_PROGMEM_START .. MAPPED_PROGMEM_END

\* The application region: from appMemStart to the end of program memory.
AppRegion == appMemStart .. MAPPED_PROGMEM_END

\* The 128 addresses flashPtr[0] .. flashPtr[127] of a 16 bit pointer.
BlockAddrs(ptr) == {(ptr + k) % 65536 : k \in DataIdx}

\* The inner while( i < X_DATA_SIZE ) loop run to its end from i = i0 with
\* an empty page buffer: the memory after its nvmWrite calls.
RECURSIVE loadAll(_, _, _, _, _)
loadAll(mem, data, ptr, i0, size) ==
    IF i0 >= X_DATA_SIZE
    THEN mem
    ELSE LET r == loadLoop(i0, 0, size)
             last == (ptr + r.i - 1) % 65536
         IN IF r.write
            THEN loadAll(nvmWrite(mem, load(EmptyBuf, data, ptr, i0, r.i), last, size),
                         data, ptr, r.i, size)
            ELSE mem

\* One pass of while( xmodem() ) for a good frame.  Stores to mapped
\* program memory go through the page buffer and nvmWrite and read back as
\* written; stores elsewhere in the data space land where the pointer
\* points, and what the verify reads back there is not known.
Block ==
    /\ pc = "xmodem"
    /\ Len(rxLog) < MaxBlocks
    /\ \E n \in {1} :
       \E blk \in {BlockAddrs(flashPtr)} :
       \E mem0 \in {[a \in AppAddrs \cup blk |->
                        IF a \in DOMAIN flash THEN flash[a] ELSE Erased]} :
       \E mem \in {IF blk \subseteq MappedProgmem
                   THEN loadAll(mem0, Payloads[n], flashPtr, 0, pageSize)
                   ELSE load(mem0, Payloads[n], flashPtr, 0, X_DATA_SIZE)} :
       \E v \in (IF blk \subseteq MappedProgmem
                 THEN {verifyLoop(mem, flashPtr, Payloads[n])}
                 ELSE {0, X_DATA_SIZE}) :
          /\ frameOk(PayloadCrc[n], RefCrc[n] \div 256, RefCrc[n] % 256,
                     blockSum(1, 254))
          /\ xmodemData' = Payloads[n]
          /\ rxLog' = Append(rxLog, [p |-> n, blk |-> 0, pair |-> TRUE,
                                     crc |-> TRUE, at |-> flashPtr])
          /\ flash' = mem
          /\ wrote' = TRUE
          /\ tx' = Append(tx, verdict(v))
          /\ flashPtr' = nextPtr(flashPtr, v)
          /\ pc' = afterVerdict(v)
    /\ i' = 0
    /\ pbc' = 0
    /\ pageBuf' = EmptyBuf
    /\ UNCHANGED <<pageSize, eeLast, nvmBusy, sw, led, uartOn, rx, crc, fed,
                   dumped, noise, eotAcked, faulted, flash0, cut, faults, resets>>

CursorNext ==
    \/ EntryCheck
    \/ InitHw
    \/ Ping
    \/ PollRx
    \/ Block

CursorSpec == Init /\ [][CursorNext]_vars

(***************************************************************************)
(* What the host and the bench can observe, read off the logs.             *)
(***************************************************************************)
Count(s, b) == Cardinality({k \in DOMAIN s : s[k] = b})

Last(s) == s[Len(s)]

IsVerdict(b) == b = X_ACK \/ b = X_NACK

\* The answers to the frames of this session, in order, without the
\* answer to the EOT.
BlockVerdicts ==
    LET v == SelectSeq(tx, IsVerdict)
    IN IF eotAcked THEN SubSeq(v, 1, Len(v) - 1) ELSE v

BlockAcks == Count(BlockVerdicts, X_ACK)

\* A frame as the sender built it: pair summing to 255, trailer the
\* big-endian CRC-16/XMODEM of the payload.
Good(f) == f.pair /\ f.crc

\* The frame that got the b-th block ACK.
AckedFrame(b) ==
    CHOOSE j \in DOMAIN BlockVerdicts :
        /\ BlockVerdicts[j] = X_ACK
        /\ Count(SubSeq(BlockVerdicts, 1, j), X_ACK) = b

\* Program memory as this session found it, with each acknowledged payload
\* laid once, in order, from the application start.
FedOnce ==
    [a \in AppAddrs |->
        LET b == (a - appMemStart) \div X_DATA_SIZE
        IN IF b < BlockAcks
           THEN Payloads[rxLog[AckedFrame(b + 1)].p][(a - appMemStart) % X_DATA_SIZE]
           ELSE flash0[a]]

\* A step in which xmodem() has read one more frame.
FrameRead == pc = "xmodem" /\ Len(rxLog') = Len(rxLog) + 1

\* A step in which programApp() has verified a block and answered.
BlockVerified == pc = "verify" /\ pc' = "xmodem"

(***************************************************************************)
(* C1  Block acceptance in xmodem(): a frame that starts with SOH is       *)
(* handed to programApp (which starts loading it) if and only if its       *)
(* block number and complement sum to 255 and its trailer is the           *)
(* big-endian CRC-16/XMODEM of its 128 payload bytes; the payload handed   *)
(* over is the one sent; every other frame gets exactly one NACK and       *)
(* xmodem() goes on reading, handing nothing over.                         *)
(***************************************************************************)
C1_BlockAcceptance ==
    [][FrameRead =>
        LET f == Last(rxLog')
        IN /\ (pc' = "load") <=> Good(f)
           /\ pc' = "load" => tx' = tx /\ xmodemData' = Payloads[f.p]
           /\ pc' # "load" => pc' = "xmodem" /\ tx' = Append(tx, X_NACK)]_vars

\* A frame with the right CRC and a bad pair was refused with one NACK,
\* then a good frame was handed over.
C1_Witness ==
    /\ pc = "load"
    /\ Len(rxLog) = 2
    /\ rxLog[1].crc /\ ~rxLog[1].pair
    /\ Good(rxLog[2])
    /\ BlockVerdicts = <<X_NACK>>

(***************************************************************************)
(* C2  Completion ordering: the flag byte changes value only in            *)
(* eeAppOK(), to a value other than 0xFF, when the last byte sent is the   *)
(* ACK that answered the EOT; no answer to a block follows that ACK, and   *)
(* the flag keeps its value through handshake and reception.               *)
(***************************************************************************)
C2_FlagAfterEotAck ==
    [][/\ eeLast' # eeLast =>
            /\ eotAcked /\ pc \notin SessionPcs
            /\ tx # <<>> /\ Last(tx) = X_ACK
            /\ eeLast' # Erased
       /\ pc \in SessionPcs => eeLast' = eeLast
       /\ eotAcked /\ eotAcked' => tx' = tx]_vars

\* The flag has just been programmed, after a block ACK and the EOT ACK.
C2_Witness ==
    /\ pc = "eeBusy"
    /\ eeLast = 0
    /\ eotAcked
    /\ BlockAcks >= 1
    /\ Last(tx) = X_ACK
    /\ flash0[appMemStart] = Erased

(***************************************************************************)
(* C3  A reset restarts the whole exchange: after a reset that cut a       *)
(* session which had written flash and had not acknowledged an EOT, main() *)
(* does not jump to the application.                                       *)
(***************************************************************************)
C3_NoJumpAfterCut == cut = "written" => pc # "app"

(***************************************************************************)
(* C4  Whenever the entry decision has chosen the bootloader, the flag     *)
(* byte reads 0xFF.                                                        *)
(***************************************************************************)
C4_FlagErasedAtStart == pc = "init" => eeLast = Erased

(***************************************************************************)
(* C5  Verification gate in programApp(): once a block has been loaded     *)
(* and written, the answer is ACK and the cursor moves up by 128 if and    *)
(* only if each of the 128 bytes of flash at the cursor equals the         *)
(* payload byte; otherwise the answer is NACK and the cursor keeps its     *)
(* value, so that the next block is written to the same place.             *)
(***************************************************************************)
C5_VerificationGate ==
    [][BlockVerified =>
        LET same == \A k \in DataIdx : flash[flashPtr + k] = xmodemData[k]
        IN /\ same => /\ tx' = Append(tx, X_ACK)
                      /\ flashPtr' = flashPtr + X_DATA_SIZE
           /\ ~same => /\ tx' = Append(tx, X_NACK)
                       /\ flashPtr' = flashPtr]_vars

\* A good frame was written, one byte read back wrong, and it was NACKed
\* with the cursor left at the application start.
C5_Witness ==
    /\ pc = "xmodem"
    /\ Len(rxLog) = 1 /\ Good(rxLog[1])
    /\ faulted
    /\ BlockVerdicts = <<X_NACK>>
    /\ flashPtr = appMemStart
    /\ \E k \in DataIdx : flash[flashPtr + k] # xmodemData[k]

C7_EntryDecision ==
    [][pc = "entry" /\ pc' # "entry" =>
        LET stay == \/ eeLast = 255
                    \/ sw'.in = 0
                    \/ flash[appMemStart] = 255
        IN /\ (pc' = "init") <=> stay
           /\ (pc' = "app") <=> ~stay
           /\ pc' = "app" =>
                /\ ~uartOn' /\ tx' = <<>> /\ dumped' = <<>>
                /\ led' = led /\ ~led'.dir
                /\ flash' = flash /\ pageBuf' = pageBuf
                /\ eeLast' = eeLast]_vars

\* With the flag programmed, the switch released and an application in
\* place, main() has jumped to the application.
C7_Witness ==
    /\ pc = "app"
    /\ eeLast # 255
    /\ sw.in = 1
    /\ flash[appMemStart] # 255
    /\ ~uartOn /\ tx = <<>>

(***************************************************************************)
(* C8  End-to-end transfer: when N >= 1 frames, each with a pair summing   *)
(* to 255 and the right CRC, and then EOT have been received in a session  *)
(* in which every page write took, the bootloader has sent N block ACKs    *)
(* and no NACK, then the ACK of the EOT; the cursor is at the application  *)
(* start plus 128 N; program memory from the application start holds the   *)
(* N payloads in the order sent; and once eeAppOK() has run the flag byte  *)
(* is not 0xFF.                                                            *)
(***************************************************************************)
C8_EndToEnd ==
    (/\ eotAcked
     /\ Len(rxLog) >= 1
     /\ \A j \in DOMAIN rxLog : Good(rxLog[j])
     /\ ~faulted)
    => /\ BlockVerdicts = [j \in DOMAIN rxLog |-> X_ACK]
       /\ Last(tx) = X_ACK
       /\ Count(tx, X_ACK) = Len(rxLog) + 1
       /\ Count(tx, X_NACK) = 0
       /\ flashPtr = appMemStart + (X_DATA_SIZE * Len(rxLog))
       /\ \A j \in DOMAIN rxLog : \A k \in DataIdx :
            flash[appMemStart + (X_DATA_SIZE * (j - 1)) + k]
                = Payloads[rxLog[j].p][k]
       /\ pc # "eeAppOK" => eeLast # Erased

\* Two good frames with different payloads and the EOT came in, the writes
\* took, and the flag is programmed.
C8_Witness ==
    /\ eotAcked
    /\ Len(rxLog) = 2
    /\ Good(rxLog[1]) /\ Good(rxLog[2])
    /\ rxLog[1].p # rxLog[2].p
    /\ ~faulted
    /\ pc = "dumpSigrow"
    /\ eeLast = 0

(***************************************************************************)
(* C9  Frame-error recovery: a frame with a bad pair or a bad CRC gets     *)
(* exactly one NACK and leaves program memory, the page buffer and the     *)
(* cursor as they were; a good frame gets no NACK from xmodem() and is     *)
(* written; and when k bad frames have been followed by a good one whose   *)
(* write took, the answers sent are k NACKs and then one ACK, and the      *)
(* cursor is 128 past the application start.                               *)
(***************************************************************************)
C9_FrameErrorRecovery ==
    [][/\ FrameRead /\ ~Good(Last(rxLog')) =>
            /\ tx' = Append(tx, X_NACK)
            /\ flash' = flash
            /\ pageBuf' = pageBuf
            /\ flashPtr' = flashPtr
       /\ FrameRead /\ Good(Last(rxLog')) => pc' = "load" /\ tx' = tx
       /\ (/\ BlockVerified
           /\ ~faulted
           /\ \A j \in 1 .. (Len(rxLog) - 1) : ~Good(rxLog[j])) =>
            /\ BlockVerdicts' =
                 [j \in DOMAIN rxLog |->
                    IF j < Len(rxLog) THEN X_NACK ELSE X_ACK]
            /\ flashPtr' = appMemStart + X_DATA_SIZE]_vars

\* A payload came with a wrong CRC, was NACKed, came again intact and was
\* ACKed: the cursor is one block up.
C9_Witness ==
    /\ pc = "xmodem"
    /\ Len(rxLog) = 2
    /\ rxLog[1].pair /\ ~rxLog[1].crc
    /\ Good(rxLog[2])
    /\ rxLog[1].p = rxLog[2].p
    /\ BlockVerdicts = <<X_NACK, X_ACK>>
    /\ flashPtr = appMemStart + X_DATA_SIZE
    /\ ~faulted

(***************************************************************************)
(* C10  Idempotence under retry: when a payload was written and NACKed     *)
(* and the same payload, sent again, was written and ACKed, program        *)
(* memory is what it would be had each acknowledged payload been laid      *)
(* once, and the cursor has moved up by 128 for the two feeds together.    *)
(***************************************************************************)
C10_RetryIdempotent ==
    \A j \in 2 .. Len(rxLog) :
        (/\ pc = "xmodem"
         /\ Len(BlockVerdicts) = j
         /\ Good(rxLog[j - 1]) /\ Good(rxLog[j])
         /\ rxLog[j - 1].p = rxLog[j].p
         /\ BlockVerdicts[j - 1] = X_NACK
         /\ BlockVerdicts[j] = X_ACK)
        => /\ flash = FedOnce
           /\ flashPtr = appMemStart
                + (X_DATA_SIZE * Count(SubSeq(BlockVerdicts, 1, j - 2), X_ACK))
                + X_DATA_SIZE

\* Over an application already in place, a payload was written, read back
\* wrong and was NACKed, then was sent again and ACKed.
C10_Witness ==
    /\ pc = "xmodem"
    /\ Len(rxLog) = 2
    /\ Good(rxLog[1]) /\ Good(rxLog[2])
    /\ rxLog[1].p = rxLog[2].p
    /\ BlockVerdicts = <<X_NACK, X_ACK>>
    /\ faulted
    /\ flash0[appMemStart + X_DATA_SIZE] # Erased
    /\ flash = FedOnce

(***************************************************************************)
(* C11  Meaning of the flag: on a device that started with the flag at     *)
(* 0xFF, a flag byte other than 0xFF means that a block was written,       *)
(* verified and ACKed in a session that was completed.  Stated for the     *)
(* first session of the device, where the only session that can have been  *)
(* completed is the one under way.                                         *)
(***************************************************************************)
C11_FlagMeansProgrammed ==
    (resets = 0 /\ eeLast # Erased) => (eotAcked /\ BlockAcks >= 1)

C13_StreamShape ==
    /\ \A k \in DOMAIN tx : (tx[k] = X_PING) <=> (k <= Pings)
    /\ \A k \in DOMAIN tx : tx[k] = X_PING \/ IsVerdict(tx[k])
    /\ pc \in {"xmodem", "load", "verify"} \/ eotAcked => Pings >= 1
    /\ Len(BlockVerdicts) =
         IF pc \in {"load", "verify"} THEN Len(rxLog) - 1 ELSE Len(rxLog)
    /\ eotAcked => /\ Last(tx) = X_ACK
                   /\ Len(tx) = Pings + Len(rxLog) + 1
    /\ dumped # <<>> => eotAcked
    /\ pc \notin (SessionPcs \cup {"entry", "app"}) => eotAcked

\* A stray byte, a frame refused, a frame accepted, the EOT, and the first
\* dump: ping, NACK, ACK, ACK.
C13_Witness ==
    /\ noise = 1
    /\ Len(rxLog) = 2
    /\ tx = <<X_PING, X_NACK, X_ACK, X_ACK>>
    /\ eotAcked
    /\ dumped = <<"SIGROW">>

(***************************************************************************)
(* C14  After the EOT ACK: the flag is stored and the nvm controller is no *)
(* longer busy before the first dump; the dumps come once each in the      *)
(* order signature row, fuses, program memory, eeprom; and the wait for    *)
(* the switch and the soft reset come only after all four.                 *)
(***************************************************************************)
C14_PostCompletionOrder ==
    LET order == <<"SIGROW", "FUSES", "MAPPED_PROGMEM", "MAPPED_EEPROM">>
        done == CASE pc = "dumpSigrow" -> 0
                  [] pc = "dumpFuses" -> 1
                  [] pc = "dumpFlash" -> 2
                  [] pc = "dumpEeprom" -> 3
                  [] pc \in {"swWait", "softReset"} -> 4
                  [] OTHER -> 0
    IN /\ dumped = SubSeq(order, 1, done)
       /\ (pc \in DumpStages \cup {"swWait", "softReset"}) =>
            /\ eotAcked
            /\ eeLast = 0
            /\ ~nvmBusy
       /\ pc = "eeBusy" => eotAcked /\ eeLast = 0

\* All four dumps are out and main() is about to reset the device.
C14_Witness ==
    /\ pc = "softReset"
    /\ dumped = <<"SIGROW", "FUSES", "MAPPED_PROGMEM", "MAPPED_EEPROM">>
    /\ eeLast = 0
    /\ BlockAcks = 2

(***************************************************************************)
(* C15  Eventual reset: once the EOT has been received, main() always      *)
(* gets to softReset() (unless the power is cut first), given only that    *)
(* the nvm controller becomes idle and the transmitter becomes ready.      *)
(***************************************************************************)
C15_EventualReset == eotAcked ~> (pc = "softReset" \/ ~eotAcked)

(***************************************************************************)
(* C15, amended  The same, given also that main() does not stay for ever   *)
(* in its wait for the switch to be released.                              *)
(***************************************************************************)
C15_ResetUnlessSwitchHeld ==
    []<>(pc # "swWait") => (eotAcked ~> (pc = "softReset" \/ ~eotAcked))

\* The switch was read released after the last dump and main() is at
\* softReset().
C15_Witness ==
    /\ pc = "softReset"
    /\ eotAcked
    /\ sw.pullup /\ sw.in # SwOnVal
    /\ Len(dumped) = 4

(***************************************************************************)
(* C16  crc16 is the CRC-16/XMODEM update: from any 16 bit value and for   *)
(* any byte it gives what the bit-serial division by x^16 + x^12 + x^5 + 1 *)
(* (most significant bit first, nothing reflected, no final xor) gives, a  *)
(* value in 0 .. 65535; so does folding it over a sequence of bytes; from  *)
(* 0 the empty sequence leaves 0, the single byte 0x00 gives 0, and        *)
(* "123456789" gives 0x31C3.                                               *)
(***************************************************************************)
RECURSIVE RefFold(_, _)
RefFold(reg, bytes) ==
    IF bytes = <<>> THEN reg
    ELSE RefFold(RefCrcBits[reg, Head(bytes), 8], Tail(bytes))

RECURSIVE Fold16(_, _)
Fold16(acc, bytes) ==
    IF bytes = <<>> THEN acc
    ELSE Fold16(crc16(acc, Head(bytes)), Tail(bytes))

C16_CrcIsXmodem ==
    pc = "crc16" =>
        /\ crc \in 0 .. 65535
        /\ crc = RefFold(fed.seed, fed.bytes)
        /\ fed = NoneFed =>
            /\ crc = 0
            /\ Fold16(0, <<49, 50, 51, 52, 53, 54, 55, 56, 57>>) = 12739
        /\ (fed.seed = 0 /\ fed.bytes = <<0>>) => crc = 0

\* Two bytes with the top bit set were folded into a crc that started with
\* its top bit set.
C16_Witness ==
    /\ pc = "crc16"
    /\ fed.seed = 32768
    /\ fed.bytes = <<255, 128>>
    /\ crc = RefFold(32768, <<255, 128>>)
    /\ crc # 32768

(***************************************************************************)
(* C17  Page commits, for the page sizes 64 and 128 of the avr0/1: while a *)
(* block is loaded the page buffer is committed each time pageSize more    *)
(* bytes are in it, the commit changes only the page just loaded and puts  *)
(* there the bytes of the block being loaded (a byte that fails to take    *)
(* apart), and verification starts when all 128 bytes are committed, with  *)
(* the page buffer empty; so no commit holds bytes of two blocks.          *)
(***************************************************************************)
C17_PageCommits ==
    /\ [](/\ pc \in {"xmodem", "verify"} => pageBuf = EmptyBuf
          /\ pc = "verify" => i = X_DATA_SIZE
          /\ pc = "load" => /\ i < X_DATA_SIZE /\ i % pageSize = 0
                            /\ pbc = 0 /\ pageBuf = EmptyBuf)
    /\ [][(pc = "load" /\ resets' = resets) =>
            /\ i' = i + pageSize
            /\ wrote'
            /\ (pc' = "verify") <=> (i' = X_DATA_SIZE)
            /\ \A a \in AppAddrs :
                IF a \in (flashPtr + i) .. (flashPtr + i' - 1)
                THEN \/ flash'[a] = xmodemData[a - flashPtr]
                     \/ faults' > faults /\ a = flashPtr + X_DATA_SIZE - 1
                ELSE flash'[a] = flash[a]]_vars

\* With 64 byte pages, the second block of a session is half loaded: its
\* first page is committed, the second not yet loaded.
C17_Witness ==
    /\ pc = "load"
    /\ pageSize = 64
    /\ i = 64
    /\ flashPtr = appMemStart + X_DATA_SIZE
    /\ pageBuf = EmptyBuf
    /\ \A k \in 0 .. 63 : flash[flashPtr + k] = xmodemData[k]
    /\ rxLog[1].p # rxLog[2].p

(***************************************************************************)
(* C18  No fatal condition inside a session: from the wait for a frame     *)
(* start, the load and the verify, a step of the program stays in the      *)
(* receive loop, except the step that reads EOT where a frame start is     *)
(* expected and acks it; a step that sends NACK goes back to the wait for  *)
(* a frame start; no step in the loop writes the flag, resets or jumps to  *)
(* the application.                                                        *)
(***************************************************************************)
ReceivePcs == {"xmodem", "load", "verify"}

C18_NoFatalCondition ==
    [][(pc \in ReceivePcs /\ resets' = resets) =>
         /\ eeLast' = eeLast
         /\ pc' \notin {"app", "entry", "softReset"}
         /\ \/ pc' \in ReceivePcs
            \/ /\ pc = "xmodem"
               /\ ~eotAcked /\ eotAcked'
               /\ tx' = Append(tx, X_ACK)
               /\ pc' = After("programApp")
         /\ (Len(tx') > Len(tx) /\ Last(tx') = X_NACK) => pc' = "xmodem"]_vars

\* A frame error and a verify mismatch in a row, and the loop waits for the
\* next frame start.
C18_Witness ==
    /\ pc = "xmodem"
    /\ ~eotAcked
    /\ Len(rxLog) = 2
    /\ ~Good(rxLog[1])
    /\ Good(rxLog[2])
    /\ faulted
    /\ BlockVerdicts = <<X_NACK, X_NACK>>

(***************************************************************************)
(* C19  Cursor bounds: in a session, after any number of accepted blocks,  *)
(* the flash cursor lies in the application region of program memory and   *)
(* so does every address stored to through it.                             *)
(***************************************************************************)
C19_CursorInBounds ==
    /\ flashPtr \in AppRegion
    /\ \A k \in DOMAIN rxLog : BlockAddrs(rxLog[k].at) \subseteq AppRegion

(***************************************************************************)
(* C20  Block number does not steer placement: with the block numbers in   *)
(* the log, the answers, the place each frame is stored at and the memory  *)
(* written are given by the rest of the log alone.  A frame is answered    *)
(* with ACK only if its pair and trailer were good, and always then when   *)
(* no write failed; it is stored at the application start plus 128 for     *)
(* each ACK sent before it, the cursor is there too once it is answered,   *)
(* and after its ACK memory holds its payload at that place.  So two runs  *)
(* that differ only in block numbers agree step by step, and two accepted  *)
(* frames with the same number lie at different places.                    *)
(***************************************************************************)
AcksBefore(k) == Count(SubSeq(BlockVerdicts, 1, k - 1), X_ACK)

C20_NumberDoesNotSteer ==
    /\ Len(BlockVerdicts) <= Len(rxLog)
    /\ \A k \in DOMAIN rxLog :
        /\ k <= Len(BlockVerdicts) + 1
        /\ rxLog[k].at = appMemStart + (X_DATA_SIZE * AcksBefore(k))
        /\ k <= Len(BlockVerdicts) =>
            /\ BlockVerdicts[k] = X_ACK => Good(rxLog[k])
            /\ (~faulted /\ Good(rxLog[k])) => BlockVerdicts[k] = X_ACK
            /\ BlockVerdicts[k] = X_ACK =>
                 \A d \in DataIdx :
                    flash[rxLog[k].at + d] = Payloads[rxLog[k].p][d]
        /\ k > Len(BlockVerdicts) => flashPtr = rxLog[k].at
    /\ pc \in {"xmodem", "load", "verify"} =>
         flashPtr = appMemStart + (X_DATA_SIZE * BlockAcks)
    /\ \A j, k \in DOMAIN BlockVerdicts :
         (/\ j < k
          /\ BlockVerdicts[j] = X_ACK
          /\ BlockVerdicts[k] = X_ACK
          /\ rxLog[j].blk = rxLog[k].blk)
         => rxLog[k].at >= rxLog[j].at + X_DATA_SIZE

\* Two frames with block number 1 and different payloads were both
\* accepted: the first lies at the application start, the second after it.
C20_Witness ==
    /\ pc = "xmodem"
    /\ Len(rxLog) = 2
    /\ BlockVerdicts = <<X_ACK, X_ACK>>
    /\ rxLog[1].blk = 1
    /\ rxLog[2].blk = 1
    /\ rxLog[1].p # rxLog[2].p
    /\ rxLog[1].at = appMemStart
    /\ rxLog[2].at = appMemStart + X_DATA_SIZE
    /\ \A d \in DataIdx :
        /\ flash[appMemStart + d] = Payloads[rxLog[1].p][d]
        /\ flash[appMemStart + X_DATA_SIZE + d] = Payloads[rxLog[2].p][d]
====
